---- MODULE Spec2Model ----
(***************************************************************************)
(* A model of the muxrpc session (src/rpc.go, the ByteSource of             *)
(* src/bothways_test.go) as a state machine.  Two peers share one          *)
(* transport; every variable is a function of the peer it belongs to.      *)
(***************************************************************************)
EXTENDS Integers, Sequences, FiniteSets, Bags, TLC

\* ------------------------------------------------------------------ bounds
MaxCallers == 2
MaxFrames == 3
MaxOps == 1
WireCap == 1
BSFrames == 3
MaxCloses == 2

\* inbound pipe buffer of one request stream
bufSize == 150

Peers == {"A", "B"}
Other(p) == IF p = "A" THEN "B" ELSE "A"

Types == {"async", "source", "sink", "duplex"}

NoErr == "nil"
EOS == "EOS"
ErrSessionTerminated == "terminated"
ErrCtx == "ctx"
ErrRemote == "CallError"

VARIABLES
    highest,     \* rpc.highest
    reqs,        \* rpc.reqs: key -> index of the Request in objs
    terminated,  \* rpc.terminated
    tLock,       \* holder of rpc.tLock, or "none"
    rLock,       \* holder of rpc.rLock, or "none"
    rootCancel,  \* the root context of handle() was cancelled
    pkrClosed,   \* Packer.Close was called on this side
    objs,        \* every Request this side has built, with its stream
    wire,        \* frames written to this side and not yet consumed
    serve,       \* the Serve goroutine
    term,        \* the Terminate invocations of this side
    closers,     \* the closeStream goroutines
    callers,     \* user goroutines running Async/Source/Sink/Duplex
    broken,      \* the connection failed (an I/O error on either side)
    sessions,    \* the peers that run a session of the model
    issued,      \* history: the ids Do handed out, in allocation order
    handled,     \* history: the keys HandleCall was invoked for, in order
    sent,        \* history: the number of frames the remote peer wrote
    bs           \* one ByteSource with its frameBuffer, goroutine by goroutine

vars == <<highest, reqs, terminated, tLock, rLock, rootCancel, pkrClosed,
          objs, wire, serve, term, closers, callers, broken, sessions,
          issued, handled, sent, bs>>

\* The variables of the session.
sessVars == <<highest, reqs, terminated, tLock, rLock, rootCancel, pkrClosed,
              objs, wire, serve, term, closers, callers, broken, sessions,
              issued, handled, sent>>

\* ------------------------------------------------------------ wire packets
\* codec.Packet: req as written by the sender, the flag bits, and the body.
\* A body is a request header ("req"), a payload ("val"), the literal true
\* ("true"), a CallError object ("err") or bytes that are none of these
\* ("junk"); "empty" is a body of length 0.
Packet(req, end, stream, json, kind, ty, v) ==
    [req |-> req, end |-> end, stream |-> stream, json |-> json,
     kind |-> kind, ty |-> ty, v |-> v]

\* A payload names the request id it was written for (w) and is the n-th
\* the writer sent.
Payload(n, w) == [n |-> n, w |-> w]
NoPayload == Payload(0, 0)

NoPacket == Packet(0, FALSE, FALSE, FALSE, "none", "", NoPayload)

\* Type.Flags(): the stream flag is set for every call type but async.
TypeFlags(type) == type # "async"

\* ---------------------------------------------------------------- requests
\* A Request with its stream.  failed is the terminal error slot of the
\* stream (NoErr while it is open), inq the buffered inbound payloads,
\* inClosed the state of the pipe sink req.in, ctxDone the state of the
\* context the holder of the stream passes to Next and Pour.  History:
\* pours counts the payloads poured, fed lists the payloads the serve loop
\* took off the connection for the request, got those Next returned, pre
\* the number of payloads that had arrived when the end frame of the peer
\* was processed (ended: the body of that frame; endOpen: a Pour of the
\* holder would still have written a frame then), lost records a Next
\* that returned an error or end-of-stream before it had handed out those
\* payloads.
NewRequest(type, local, inCap, outCap, byteSource) ==
    [id |-> 0, type |-> type, local |-> local, bs |-> byteSource,
     inCap |-> inCap, outCap |-> outCap,
     inq |-> <<>>, inClosed |-> FALSE, failed |-> NoErr, fired |-> FALSE,
     ctxDone |-> FALSE, pours |-> 0, fed |-> <<>>, got |-> <<>>,
     ended |-> "no", pre |-> 0, lost |-> FALSE, endOpen |-> FALSE]

\* The stream each call type is given by Async, Source, Sink and Duplex.
CallInCapTable(type) ==
    CASE type = "async" -> "none"
      [] type = "source" -> "none"
      [] type = "sink" -> "many"
      [] OTHER -> "many"

CallInCap(type) ==
    CASE type = "async" -> "once"
      [] type = "source" -> "many"
      [] type = "sink" -> "none"
      [] OTHER -> "many"

CallOutCap(type) ==
    CASE type = "async" -> "none"
      [] type = "source" -> "none"
      [] type = "sink" -> "many"
      [] OTHER -> "many"

\* Source builds its request on a ByteSource (req.in stays nil).
CallIsByteSource(type) == type = "source"

\* --------------------------------------------------------------- transport
\* Packer.Pour: fails once the connection is closed or broken, blocks
\* while the connection holds WireCap frames the reader has not consumed.
\* A remote end that is not a session of the model reads at once.
PourFails(p) == pkrClosed[p] \/ pkrClosed[Other(p)] \/ broken
PourReady(p) == PourFails(p) \/ Len(wire[Other(p)]) < WireCap
Poured(p, pkt) ==
    IF PourFails(p) \/ Other(p) \notin sessions THEN wire
    ELSE [wire EXCEPT ![Other(p)] = Append(@, pkt)]

\* ------------------------------------------------------------------- locks
RLockIgnored(p) == TRUE
RLockFree(p) == rLock[p] = "none"
TLockFree(p) == tLock[p] = "none"

\* ---------------------------------------------------------------------- Do
\* r.highest++ on an int32.
MaxInt32 == 2147483647
NextIdStale(h) == h
NextId(h) == IF h = MaxInt32 THEN 0 - MaxInt32 - 1 ELSE h + 1

\* Async/Source/Sink/Duplex build the request; Do takes rLock and reads
\* r.highest.  marshal is the outcome of json.Marshal(req).
DoLock(p, c, type, marshal) ==
    /\ callers[p][c].pc = "idle"
    /\ IF c = 1 THEN TRUE ELSE callers[p][c - 1].pc # "idle"
    /\ RLockFree(p)
    /\ rLock' = [rLock EXCEPT ![p] = "do"]
    /\ objs' = [objs EXCEPT ![p] = Append(@,
           NewRequest(type, TRUE, CallInCap(type), CallOutCap(type),
                      CallIsByteSource(type)))]
    /\ callers' = [callers EXCEPT ![p][c] =
           [pc |-> "locked", obj |-> Len(objs[p]) + 1, ok |-> marshal,
            h |-> highest[p]]]
    /\ UNCHANGED <<highest, reqs, terminated, tLock, rootCancel, pkrClosed,
                   wire, serve, term, closers, broken, issued, handled, sent, sessions, bs>>

\* r.highest++; pkt.Req = r.highest; r.reqs[pkt.Req] = req;
\* req.Stream.WithReq(pkt.Req); req.id = pkt.Req; unlock.
DoStoreNoInsert(p, c) ==
    /\ callers[p][c].pc = "locked"
    /\ LET o == callers[p][c].obj
           id == NextId(callers[p][c].h)
       IN /\ highest' = [highest EXCEPT ![p] = id]
          /\ reqs' = reqs
          /\ objs' = [objs EXCEPT ![p][o].id = id]
          /\ issued' = [issued EXCEPT ![p] = Append(@, id)]
    /\ rLock' = [rLock EXCEPT ![p] = "none"]
    /\ callers' = [callers EXCEPT ![p][c].pc =
                       IF callers[p][c].ok THEN "pour" ELSE "failed"]
    /\ UNCHANGED <<terminated, tLock, rootCancel, pkrClosed, wire, serve,
                   term, closers, broken, handled, sent, sessions, bs>>

DoStore(p, c) ==
    /\ callers[p][c].pc = "locked"
    /\ LET o == callers[p][c].obj
           id == NextId(callers[p][c].h)
       IN /\ highest' = [highest EXCEPT ![p] = id]
          /\ reqs' = [reqs EXCEPT ![p] =
                 [k \in DOMAIN @ \cup {id} |-> IF k = id THEN o ELSE @[k]]]
          /\ objs' = [objs EXCEPT ![p][o].id = id]
          /\ issued' = [issued EXCEPT ![p] = Append(@, id)]
    /\ rLock' = [rLock EXCEPT ![p] = "none"]
    /\ callers' = [callers EXCEPT ![p][c].pc =
                       IF callers[p][c].ok THEN "pour" ELSE "failed"]
    /\ UNCHANGED <<terminated, tLock, rootCancel, pkrClosed, wire, serve,
                   term, closers, broken, handled, sent, sessions, bs>>

\* Do's r.pkr.Pour(ctx, &pkt) of the initiation packet.
DoPour(p, c) ==
    /\ callers[p][c].pc = "pour"
    /\ PourReady(p)
    /\ LET r == objs[p][callers[p][c].obj]
       IN wire' = Poured(p, Packet(r.id, FALSE, TypeFlags(r.type), TRUE,
                                   "req", r.type, NoPayload))
    /\ callers' = [callers EXCEPT ![p][c].pc =
                       IF PourFails(p) THEN "failed" ELSE "called"]
    /\ UNCHANGED <<highest, reqs, terminated, tLock, rLock, rootCancel,
                   pkrClosed, objs, serve, term, closers, broken, issued,
                   handled, sent, sessions, bs>>

\* ------------------------------------------------------------------ stream
\* Request.CloseWithError(e): the request is failed on both sides.  The
\* pipe sink req.in is closed, the terminal error is stored unless one is
\* there already, and a stream that was still open sends its end packet
\* (body true for a nil error, a CallError otherwise).
StreamOpen(r) == r.failed = NoErr

EndPacket(r, e) ==
    Packet(r.id, TRUE, r.outCap = "many", TRUE,
           IF e = NoErr THEN "true" ELSE "err", "", NoPayload)

Failed(r, e) ==
    [r EXCEPT !.failed = IF @ = NoErr THEN (IF e = NoErr THEN EOS ELSE e)
                         ELSE @]

\* ByteSource.Cancel(err) is the done callback of a Source request; the
\* other requests close their pipe sink.
ReqClosed(r, e) ==
    IF r.bs THEN Failed(r, e) ELSE [Failed(r, e) EXCEPT !.inClosed = TRUE]

\* The packets on the connection after p closed request r with e.
CloseWire(p, r, e) ==
    IF StreamOpen(r) THEN Poured(p, EndPacket(r, e)) ELSE wire

CloseReady(p, r) == ~StreamOpen(r) \/ PourReady(p)

\* What Pour(ctx, v) returns now: the terminal error of a failed stream,
\* "closed" (ErrStreamClosed) after a normal close, "cap" for a
\* capability violation, ErrCtx under a cancelled context; "ok" when it
\* goes on to write the frame.
PourOutcome(r) ==
    IF r.failed = EOS THEN "closed"
    ELSE IF r.failed # NoErr THEN r.failed
    ELSE IF r.outCap = "none" \/ (r.outCap = "once" /\ r.fired) THEN "cap"
    ELSE IF r.ctxDone THEN ErrCtx
    ELSE "ok"

\* The holder of a stream: the handler of a request the peer initiated,
\* or the caller whose Do returned nil.
Held(p, o) ==
    /\ objs[p][o].id # 0
    /\ \/ ~objs[p][o].local
       \/ \E c \in DOMAIN callers[p] :
            callers[p][c].obj = o /\ callers[p][c].pc = "called"

\* ------------------------------------------------------------------- Serve
\* Packer.NextHeader inverts the request id of every header it reads.
InvertNot(pkt) == pkt
Invert(pkt) == [pkt EXCEPT !.req = 0 - pkt.req]

ServeAt(p, pc, hdr, err, ret) ==
    serve' = [serve EXCEPT ![p] = [pc |-> pc, hdr |-> hdr, err |-> err,
                                   ret |-> ret, skew |-> serve[p].skew,
                                   late |-> IF ret = "none" THEN FALSE
                                            ELSE terminated[p]]]

\* err = r.pkr.NextHeader(ctx, &hdr), and the test for EOS/already closed.
ServeNextHeader(p) ==
    /\ serve[p].pc = "hdr"
    /\ ~serve[p].skew
    /\ \/ /\ pkrClosed[p]
          /\ ServeAt(p, "exit", NoPacket, "none", "nil")
       \/ /\ ~pkrClosed[p] /\ broken
          /\ ServeAt(p, "tlock", NoPacket, "io", "none")
       \/ /\ ~pkrClosed[p] /\ ~broken /\ wire[p] # <<>>
          /\ ServeAt(p, "route", Invert(Head(wire[p])), "none", "none")
       \/ /\ ~pkrClosed[p] /\ ~broken /\ wire[p] = <<>>
          /\ pkrClosed[Other(p)]
          /\ ServeAt(p, "exit", NoPacket, "none", "nil")
    /\ UNCHANGED <<highest, reqs, terminated, tLock, rLock, rootCancel,
                   pkrClosed, objs, wire, term, closers, callers, broken,
                   issued, handled, sent, sessions, bs>>

\* The part of doRet under tLock: a read error is absorbed when the
\* session is terminated.  (With no error the section only waits for
\* tLock; the routing steps below wait for it.)
AbsorbAlways(t) == "nil"
Absorb(t) == IF t THEN "nil" ELSE "err"

ServeTLock(p) ==
    /\ serve[p].pc = "tlock"
    /\ TLockFree(p)
    /\ ServeAt(p, "exit", NoPacket, "io", Absorb(terminated[p]))
    /\ UNCHANGED <<highest, reqs, terminated, tLock, rLock, rootCancel,
                   pkrClosed, objs, wire, term, closers, callers, broken,
                   issued, handled, sent, sessions, bs>>

\* A return of Serve that does not go through r.Terminate(): the deferred
\* r.pkr.Close() runs.  The error is that of reading a body ("read"; "io"
\* is that of reading a header), of
\* a body or header that is not what the protocol expects ("parse"), or of
\* handing a payload to a closed stream ("pour").
ServeFail(p, cause) ==
    /\ ServeAt(p, "done", NoPacket, cause, "err")
    /\ pkrClosed' = [pkrClosed EXCEPT ![p] = TRUE]

\* Reading a body from the connection: once the connection is closed or
\* broken the bytes may or may not have been buffered already.
BodyReads(p) ==
    IF pkrClosed[p] \/ broken THEN {TRUE, FALSE} ELSE {TRUE}

\* isTrue(body), and parseError(body) for any other body.
IsTrueNever(pkt) == FALSE
IsTrue(pkt) == pkt.kind = "true"
ParseErrorNever(pkt) == FALSE
ParseErrorOk(pkt) == pkt.kind = "err"

\* The frame is done with: the next header follows it on the connection.
Consumed(p) == wire' = [wire EXCEPT ![p] = Tail(@)]

\* hdr.Flag.Get(codec.FlagEndErr), the request is in the table:
\* req.abort(), read the body, go r.closeStream(req, streamErr).
ServeEndKnown(p) ==
    /\ serve[p].pc = "route"
    /\ serve[p].hdr.end
    /\ TLockFree(p) /\ RLockFree(p)
    /\ serve[p].hdr.req \in DOMAIN reqs[p]
    /\ LET o == reqs[p][serve[p].hdr.req]
           r == objs[p][o]
           hdr == serve[p].hdr
       IN /\ objs' = [objs EXCEPT ![p][o].ctxDone = @ \/ ~r.local,
                                  ![p][o].pre = IF r.ended # "no" THEN @
                                                ELSE Len(r.fed),
                                  ![p][o].ended = IF @ # "no" THEN @
                                                  ELSE hdr.kind,
                                  ![p][o].endOpen =
                                      IF r.ended # "no" THEN @
                                      ELSE Held(p, o)
                                               /\ PourOutcome(r) = "ok"]
          /\ \E ok \in BodyReads(p) :
               IF ok /\ (IsTrue(hdr) \/ ParseErrorOk(hdr))
               THEN /\ closers' = [closers EXCEPT ![p] = @ (+) SetToBag({
                           [o |-> o, pc |-> "close",
                            err |-> IF IsTrue(hdr) THEN NoErr ELSE ErrRemote]})]
                    /\ ServeAt(p, "hdr", NoPacket, "none", "none")
                    /\ UNCHANGED pkrClosed
               ELSE /\ ServeFail(p, IF ok THEN "parse" ELSE "read")
                    /\ UNCHANGED closers
    /\ Consumed(p)
    /\ UNCHANGED <<highest, reqs, terminated, tLock, rLock, rootCancel,
                   term, callers, broken, issued, handled, sent, sessions, bs>>

\* An end frame for an id that is not in the table: "unhandled packet",
\* and the loop continues without reading the body.
ServeEndUnknown(p) ==
    /\ serve[p].pc = "route"
    /\ serve[p].hdr.end
    /\ TLockFree(p) /\ RLockFree(p)
    /\ serve[p].hdr.req \notin DOMAIN reqs[p]
    /\ serve' = [serve EXCEPT ![p] = [pc |-> "hdr", hdr |-> NoPacket,
                     err |-> "none", ret |-> "none",
                     skew |-> serve[p].hdr.kind # "empty", late |-> FALSE]]
    /\ Consumed(p)
    /\ UNCHANGED <<highest, reqs, terminated, tLock, rLock, rootCancel,
                   pkrClosed, objs, term, closers, callers, broken, issued,
                   handled, sent, sessions, bs>>

\* ------------------------------------------------------------ ParseRequest
\* json.NewDecoder(rd).Decode(&req): only a request header decodes.
DecodesAlways(pkt) == TRUE
DecodesAsRequest(pkt) == pkt.kind = "req"

\* The call type ParseRequest accepts for the stream flag, "" if none.
ParsedType(pkt) ==
    IF pkt.stream
    THEN (IF pkt.ty \in {"duplex", "source", "sink"} THEN pkt.ty ELSE "")
    ELSE (IF pkt.ty \in {"", "async"} THEN "async" ELSE "")

ParseInCap(type) ==
    CASE type = "duplex" -> "many"
      [] type = "source" -> "none"
      [] type = "sink" -> "many"
      [] OTHER -> "none"

ParseOutCapNone(type) == "none"
ParseOutCap(type) ==
    CASE type = "duplex" -> "many"
      [] type = "source" -> "many"
      [] type = "sink" -> "none"
      [] OTHER -> "once"

ParseRequestAnySign(pkt, bodyOk) ==
    /\ pkt.json
    /\ bodyOk
    /\ DecodesAsRequest(pkt)
    /\ ParsedType(pkt) # ""

ParseRequestOk(pkt, bodyOk) ==
    /\ pkt.json
    /\ pkt.req < 0
    /\ bodyOk
    /\ DecodesAsRequest(pkt)
    /\ ParsedType(pkt) # ""

ParsedRequest(pkt) ==
    [NewRequest(ParsedType(pkt), FALSE, ParseInCap(ParsedType(pkt)),
                ParseOutCap(ParsedType(pkt)), FALSE) EXCEPT !.id = pkt.req]

\* fetchRequest for an id that is not in the table: ParseRequest under
\* rLock, store the request, go r.root.HandleCall(ctx, req, r).
IsKnownNever(p, id) == FALSE
IsKnown(p, id) == id \in DOMAIN reqs[p]

ServeNew(p) ==
    /\ serve[p].pc = "route"
    /\ ~serve[p].hdr.end
    /\ TLockFree(p) /\ RLockFree(p)
    /\ ~IsKnown(p, serve[p].hdr.req)
    /\ LET hdr == serve[p].hdr
           o == Len(objs[p]) + 1
       IN \E ok \in BodyReads(p) :
            IF ParseRequestOk(hdr, ok)
            THEN /\ objs' = [objs EXCEPT ![p] = Append(@, ParsedRequest(hdr))]
                 /\ reqs' = [reqs EXCEPT ![p] =
                        [k \in DOMAIN @ \cup {hdr.req} |->
                            IF k = hdr.req THEN o ELSE @[k]]]
                 /\ handled' = [handled EXCEPT ![p] = Append(@, hdr.req)]
                 /\ ServeAt(p, "hdr", NoPacket, "none", "none")
                 /\ UNCHANGED pkrClosed
            ELSE /\ ServeFail(p, IF ParseRequestOk(hdr, TRUE)
                                   THEN "read" ELSE "parse")
                 /\ UNCHANGED <<objs, reqs, handled>>
    /\ Consumed(p)
    /\ UNCHANGED <<highest, terminated, tLock, rLock, rootCancel, term,
                   closers, callers, broken, issued, sent, sessions, bs>>

\* A payload for a request of the table: ByteSource.consume for a Source
\* request (req.in == nil), req.in.Pour(ctx, pkt) for the others.  Pour
\* blocks while the pipe holds bufSize packets.
DeliveredFirst(r, v) == [r EXCEPT !.inq = <<v>> \o @]
Delivered(r, v) == [r EXCEPT !.inq = Append(@, v)]

DeliverFails(r, bodyOk) ==
    \/ ~bodyOk
    \/ IF r.bs THEN r.failed # NoErr ELSE r.inClosed

ServeData(p) ==
    /\ serve[p].pc = "route"
    /\ ~serve[p].hdr.end
    /\ TLockFree(p) /\ RLockFree(p)
    /\ IsKnown(p, serve[p].hdr.req)
    /\ LET hdr == serve[p].hdr
           o == reqs[p][hdr.req]
           r == objs[p][o]
       IN \E ok \in BodyReads(p) :
            IF DeliverFails(r, ok)
            THEN /\ ServeFail(p, IF ok THEN "pour" ELSE "read")
                 /\ UNCHANGED objs
            ELSE /\ r.bs \/ Len(r.inq) < bufSize
                 /\ objs' = [objs EXCEPT ![p][o] =
                        [Delivered(r, hdr.v) EXCEPT !.fed = Append(@, hdr.v)]]
                 /\ ServeAt(p, "hdr", NoPacket, "none", "none")
                 /\ UNCHANGED pkrClosed
    /\ Consumed(p)
    /\ UNCHANGED <<highest, reqs, terminated, tLock, rLock, rootCancel,
                   term, closers, callers, broken, issued, handled, sent, sessions, bs>>

\* ------------------------------------------------------------- closeStream
\* err := req.CloseWithError(streamErr)
CloseStreamClose(p, c) ==
    /\ BagIn(c, closers[p])
    /\ c.pc = "close"
    /\ CloseReady(p, objs[p][c.o])
    /\ wire' = CloseWire(p, objs[p][c.o], c.err)
    /\ objs' = [objs EXCEPT ![p][c.o] = ReqClosed(@, c.err)]
    /\ closers' = [closers EXCEPT ![p] =
           (@ (-) SetToBag({c})) (+) SetToBag({[c EXCEPT !.pc = "delete"]})]
    /\ UNCHANGED <<highest, reqs, terminated, tLock, rLock, rootCancel,
                   pkrClosed, serve, term, callers, broken, issued, handled,
                   sent, sessions, bs>>

\* r.rLock.Lock(); delete(r.reqs, req.id)
CloseStreamDelete(p, c) ==
    /\ BagIn(c, closers[p])
    /\ c.pc = "delete"
    /\ RLockFree(p)
    /\ reqs' = [reqs EXCEPT ![p] =
           [k \in DOMAIN @ \ {objs[p][c.o].id} |-> @[k]]]
    /\ closers' = [closers EXCEPT ![p] = @ (-) SetToBag({c})]
    /\ UNCHANGED <<highest, terminated, tLock, rLock, rootCancel, pkrClosed,
                   objs, wire, serve, term, callers, broken, issued, handled,
                   sent, sessions, bs>>

\* --------------------------------------------------------------- Terminate
\* r.cancel(), by the user (t = "user") or by Serve on its way out
\* (t = "serve").
TermCall(p) ==
    /\ term[p]["user"].pc = "idle"
    /\ term' = [term EXCEPT ![p]["user"].pc = "lock"]
    /\ rootCancel' = [rootCancel EXCEPT ![p] = TRUE]
    /\ UNCHANGED <<highest, reqs, terminated, tLock, rLock, pkrClosed, objs,
                   wire, serve, closers, callers, broken, issued, handled,
                   sent, sessions, bs>>

ServeExit(p) ==
    /\ serve[p].pc = "exit"
    /\ term[p]["serve"].pc = "idle"
    /\ term' = [term EXCEPT ![p]["serve"].pc = "lock"]
    /\ rootCancel' = [rootCancel EXCEPT ![p] = TRUE]
    /\ serve' = [serve EXCEPT ![p].pc = "term"]
    /\ UNCHANGED <<highest, reqs, terminated, tLock, rLock, pkrClosed, objs,
                   wire, closers, callers, broken, issued, handled, sent, sessions, bs>>

\* r.tLock.Lock(); r.terminated = true; r.rLock.Lock(); the requests to
\* close are those in the table now.
TermLock(p, t) ==
    /\ term[p][t].pc = "lock"
    /\ TLockFree(p)
    /\ RLockFree(p)
    /\ tLock' = [tLock EXCEPT ![p] = t]
    /\ rLock' = [rLock EXCEPT ![p] = t]
    /\ terminated' = [terminated EXCEPT ![p] = TRUE]
    /\ term' = [term EXCEPT ![p][t] = [pc |-> "closing",
                                       todo |-> DOMAIN reqs[p], did |-> {}]]
    /\ UNCHANGED <<highest, reqs, rootCancel, pkrClosed, objs, wire, serve,
                   closers, callers, broken, issued, handled, sent, sessions, bs>>

\* req.CloseWithError(ErrSessionTerminated), for the requests of the
\* table in any order.
TermErrorNil == NoErr
TermError == ErrSessionTerminated

TermCloseReq(p, t, k) ==
    /\ term[p][t].pc = "closing"
    /\ k \in term[p][t].todo
    /\ LET o == reqs[p][k]
       IN /\ CloseReady(p, objs[p][o])
          /\ wire' = CloseWire(p, objs[p][o], TermError)
          /\ objs' = [objs EXCEPT ![p][o] = ReqClosed(@, TermError)]
    /\ term' = [term EXCEPT ![p][t].todo = @ \ {k},
                             ![p][t].did = @ \cup
                                 {[o |-> reqs[p][k],
                                   open |-> StreamOpen(objs[p][reqs[p][k]])]}]
    /\ UNCHANGED <<highest, reqs, terminated, tLock, rLock, rootCancel,
                   pkrClosed, serve, closers, callers, broken, issued,
                   handled, sent, sessions, bs>>

\* return r.pkr.Close(), then the deferred unlocks.
TermClose(p, t) ==
    /\ term[p][t].pc = "closing"
    /\ term[p][t].todo = {}
    /\ pkrClosed' = [pkrClosed EXCEPT ![p] = TRUE]
    /\ tLock' = [tLock EXCEPT ![p] = "none"]
    /\ rLock' = [rLock EXCEPT ![p] = "none"]
    /\ term' = [term EXCEPT ![p][t].pc = "done"]
    /\ serve' = IF t = "serve" THEN [serve EXCEPT ![p].pc = "done"] ELSE serve
    /\ UNCHANGED <<highest, reqs, terminated, rootCancel, objs, wire,
                   closers, callers, broken, issued, handled, sent, sessions, bs>>

\* ------------------------------------------------------- stream operations
\* What Next(ctx) can return now ("val" for a payload); empty when it
\* blocks.  A ByteSource hands out buffered frames first; a pipe stream
\* reports a terminal error at once and end-of-stream after the buffered
\* payloads, and a cancelled context competes with a buffered payload.
NextOutcomes(r) ==
    IF r.bs
    THEN (IF r.inq # <<>> THEN {"val"}
          ELSE IF r.failed # NoErr THEN {r.failed}
          ELSE IF r.ctxDone THEN {ErrCtx} ELSE {})
    ELSE (IF r.inCap = "none" THEN {"cap"}
          ELSE IF r.failed \notin {NoErr, EOS} THEN {r.failed}
          ELSE IF r.ctxDone
               THEN {ErrCtx} \cup (IF r.inq # <<>> THEN {"val"} ELSE {})
          ELSE IF r.inq # <<>> THEN {"val"}
          ELSE IF r.failed = EOS THEN {EOS} ELSE {})

AfterNext(r, out) ==
    IF out = "val"
    THEN [r EXCEPT !.inq = Tail(@), !.got = Append(@, Head(r.inq))]
    ELSE IF out = "cap" THEN r
    ELSE [Failed(r, out) EXCEPT
              !.lost = @ \/ (r.ended # "no" /\ Len(r.got) < r.pre)]

StreamNext(p, o) ==
    /\ Held(p, o)
    /\ \E out \in NextOutcomes(objs[p][o]) :
         objs' = [objs EXCEPT ![p][o] = AfterNext(@, out)]
    /\ UNCHANGED <<highest, reqs, terminated, tLock, rLock, rootCancel,
                   pkrClosed, wire, serve, term, closers, callers, broken,
                   issued, handled, sent, sessions, bs>>

DataPacket(r, v) == Packet(r.id, FALSE, r.outCap = "many", TRUE, "val", "", v)

StreamPour(p, o) ==
    /\ Held(p, o)
    /\ objs[p][o].pours < MaxOps
    /\ LET r == objs[p][o]
       IN IF PourOutcome(r) = "ok"
          THEN /\ PourReady(p)
               /\ wire' = Poured(p, DataPacket(r, Payload(r.pours + 1, r.id)))
               /\ objs' = [objs EXCEPT ![p][o].pours = @ + 1,
                                       ![p][o].fired = TRUE]
          ELSE /\ PourOutcome(r) = ErrCtx
               /\ objs' = [objs EXCEPT ![p][o] = Failed(@, ErrCtx)]
               /\ UNCHANGED wire
    /\ UNCHANGED <<highest, reqs, terminated, tLock, rLock, rootCancel,
                   pkrClosed, serve, term, closers, callers, broken, issued,
                   handled, sent, sessions, bs>>

\* Close() of an open stream sends the end packet and closes the stream;
\* on a closed stream it does nothing.
StreamClose(p, o) ==
    /\ Held(p, o)
    /\ ~objs[p][o].bs
    /\ StreamOpen(objs[p][o])
    /\ PourReady(p)
    /\ wire' = Poured(p, EndPacket(objs[p][o], NoErr))
    /\ objs' = [objs EXCEPT ![p][o] = Failed(@, NoErr)]
    /\ UNCHANGED <<highest, reqs, terminated, tLock, rLock, rootCancel,
                   pkrClosed, serve, term, closers, callers, broken, issued,
                   handled, sent, sessions, bs>>

\* The caller cancels the context it passed to the call.
CtxCancel(p, o) ==
    /\ Held(p, o)
    /\ objs[p][o].local
    /\ ~objs[p][o].ctxDone
    /\ objs' = [objs EXCEPT ![p][o].ctxDone = TRUE]
    /\ UNCHANGED <<highest, reqs, terminated, tLock, rLock, rootCancel,
                   pkrClosed, wire, serve, term, closers, callers, broken,
                   issued, handled, sent, sessions, bs>>

\* After a body was left unread the next header is parsed out of body
\* bytes: the loop does not find a frame again and Serve ends in an error
\* (or stays blocked on the bytes of a body that never come).
ServeSkewed(p) ==
    /\ serve[p].pc = "hdr"
    /\ serve[p].skew
    /\ ServeFail(p, "parse")
    /\ UNCHANGED <<highest, reqs, terminated, tLock, rLock, rootCancel,
                   objs, wire, term, closers, callers, broken, issued,
                   handled, sent, sessions, bs>>

\* ------------------------------------------------------------ frameBuffer
\* bs.buf, byte by byte.  store holds the bytes of the bytes.Buffer: for
\* each copyBody the four bytes of the announced length, little endian,
\* then the bytes of the body that arrived.  frames is a uint32, kept as
\* its two 16 bit halves so that the atomic additions keep their width.
\* History: stored counts the copyBody calls that returned nil, handed
\* the getNextFrameReader calls that returned a reader, copies and gets
\* all the calls.
FBCopies == 3
FBGets == 4
FBBody == 2
BodyByte == 1
Half == 65536

Uint32(n) == [hi |-> n \div Half, lo |-> n % Half]

\* atomic.AddUint32(&x, d)
AddUint32(x, d) ==
    [hi |-> (x.hi + d.hi + ((x.lo + d.lo) \div Half)) % Half,
     lo |-> (x.lo + d.lo) % Half]

\* ^uint32(0)
AllOnes == [hi |-> Half - 1, lo |-> Half - 1]

\* binary.LittleEndian.PutUint32 and Uint32
PutUint32(n) ==
    <<n % 256, (n \div 256) % 256, (n \div Half) % 256,
      (n \div (256 * Half)) % 256>>
LittleEndian(b) == b[1] + 256 * b[2] + Half * b[3] + 256 * Half * b[4]

NewFrameBuffer ==
    [store |-> <<>>, waiting |-> FALSE, currentFrameTotal |-> 0,
     currentFrameRead |-> 0, frames |-> Uint32(0), lenBuf |-> PutUint32(0),
     pc |-> "ok", stored |-> 0, handed |-> 0, copies |-> 0, gets |-> 0]

\* The store without its first n bytes (all of it if it is shorter).
Drop(st, n) == SubSeq(st, n + 1, Len(st))
Min(a, b) == IF a < b THEN a ELSE b

\* copyBody(pktLen, rd), rd giving k bytes: the length and the k bytes
\* are written; frames is incremented and the waiter woken only if the
\* whole body came.
FrameStored(pktLen, k) == k = pktLen

FBCopyBody(pktLen, k) ==
    /\ bs.buf.pc = "ok"
    /\ bs.buf.copies < FBCopies
    /\ k <= pktLen
    /\ bs' = [bs EXCEPT !.buf =
         [@ EXCEPT !.store = @ \o PutUint32(pktLen) \o [i \in 1..k |-> BodyByte],
                   !.lenBuf = PutUint32(pktLen),
                   !.copies = @ + 1,
                   !.frames = IF FrameStored(pktLen, k)
                              THEN AddUint32(@, Uint32(1)) ELSE @,
                   !.stored = IF FrameStored(pktLen, k) THEN @ + 1 ELSE @,
                   !.waiting = IF FrameStored(pktLen, k) THEN FALSE ELSE @]]
    /\ UNCHANGED sessVars

\* waitForMore() with no frame there: the channel is kept in fw.waiting,
\* a panic if one is kept already.  With a frame there it changes
\* nothing.
FBWaitForMore ==
    /\ bs.buf.pc = "ok"
    /\ bs.buf.frames = Uint32(0)
    /\ bs' = [bs EXCEPT !.buf =
         IF @.waiting THEN [@ EXCEPT !.pc = "panic"]
         ELSE [@ EXCEPT !.waiting = TRUE]]
    /\ UNCHANGED sessVars

\* What is left of the store after getNextFrameReader skipped the unread
\* rest of the frame before.
Skipped(b) ==
    IF b.currentFrameTotal # 0 /\ b.currentFrameTotal - b.currentFrameRead > 0
    THEN Drop(b.store, Min(b.currentFrameTotal - b.currentFrameRead,
                           Len(b.store)))
    ELSE b.store

\* fw.store.Read(fw.lenBuf[:]) of store st: up to four bytes replace the
\* first bytes of lenBuf.
ReadLen(b, st) ==
    [i \in 1..4 |-> IF i <= Len(st) THEN st[i] ELSE b.lenBuf[i]]

\* getNextFrameReader(): the rest of the frame before is skipped; an
\* empty store is an error; else the next bytes are the length, and
\* frames is decremented.
FBGetNextFrameReader ==
    /\ bs.buf.pc = "ok"
    /\ bs.buf.gets < FBGets
    /\ LET st == Skipped(bs.buf)
       IN bs' = [bs EXCEPT !.buf =
            IF st = <<>>
            THEN [@ EXCEPT !.store = st, !.gets = @ + 1]
            ELSE [@ EXCEPT !.store = Drop(st, 4),
                           !.lenBuf = ReadLen(bs.buf, st),
                           !.currentFrameRead = 0,
                           !.currentFrameTotal =
                               LittleEndian(ReadLen(bs.buf, st)),
                           !.frames = AddUint32(@, AllOnes),
                           !.handed = @ + 1,
                           !.gets = @ + 1]]
    /\ UNCHANGED sessVars

\* countingReader.Read of up to n bytes from the reader handed out last:
\* at most the rest of the frame, at most what the store holds.
FBRead(n) ==
    /\ bs.buf.pc = "ok"
    /\ LET got == Min(n, Min(bs.buf.currentFrameTotal - bs.buf.currentFrameRead,
                             Len(bs.buf.store)))
       IN /\ got > 0
          /\ bs' = [bs EXCEPT !.buf =
               [@ EXCEPT !.store = Drop(@, got),
                         !.currentFrameRead = @ + got]]
    /\ UNCHANGED sessVars

\* -------------------------------------------------------------- ByteSource
\* newByteSource: store is the frames in buf.store (buf.frames is their
\* number), failed is bs.failed, closed the number of close(bs.closed),
\* waiting is buf.waiting # nil, woken says the channel waitForMore gave
\* the running Next is closed, ctx and sctx say the context passed to Next
\* and bs.streamCtx are done.  pc is the place of the goroutine in Next,
\* ret what the last Next returned and via the branch it returned from.
\* History: stored lists the frames consume stored, got those Bytes read,
\* atClose the number of frames read when the stream was closed, refused
\* a consume that failed, closes the number of calls of Close and
\* CloseWithError by the holder of the stream.
NewByteSource ==
    [store |-> <<>>, failed |-> NoErr, closed |-> 0, waiting |-> FALSE,
     woken |-> FALSE, ctx |-> FALSE, sctx |-> FALSE, pc |-> "idle",
     ret |-> "none", via |-> "none", stored |-> <<>>, got |-> <<>>,
     atClose |-> 0 - 1, refused |-> FALSE, closes |-> 0,
     buf |-> NewFrameBuffer]

\* ByteSource.CloseWithError(err): bs.failed = err (EOS for nil), then
\* close(bs.closed).
BSClosed(b, e) ==
    [b EXCEPT !.failed = IF e = NoErr THEN EOS ELSE e,
              !.closed = @ + 1,
              !.atClose = IF @ < 0 THEN Len(b.got) ELSE @]

\* ByteSource.Cancel(err), under bs.mu: nothing if bs.failed is set.
BSCancel(e) ==
    /\ bs.failed = NoErr
    /\ bs' = BSClosed(bs, e)
    /\ UNCHANGED sessVars

\* Close() and CloseWithError(e) called by the holder of the stream, with
\* no lock and no test of bs.failed: bs.failed is assigned, and
\* close(bs.closed) of a channel that is closed already panics (pc is
\* "crash": the program is gone).
BSClose(e) ==
    /\ bs.pc # "crash"
    /\ bs.closes < MaxCloses
    /\ bs' = [BSClosed(bs, e) EXCEPT
                 !.closes = @ + 1,
                 !.pc = IF bs.closed > 0 THEN "crash" ELSE @]
    /\ UNCHANGED sessVars

\* ByteSource.consume with frameBuffer.copyBody, under bs.mu: refused once
\* bs.failed is set; else the frame is stored, buf.frames incremented and
\* the waiting channel closed.
BSConsume ==
    /\ Len(bs.stored) < BSFrames
    /\ ~bs.refused
    /\ bs' = IF bs.failed # NoErr
             THEN [bs EXCEPT !.refused = TRUE]
             ELSE [bs EXCEPT !.store = Append(@, Len(bs.stored) + 1),
                             !.stored = Append(@, Len(bs.stored) + 1),
                             !.woken = @ \/ bs.waiting,
                             !.waiting = FALSE]
    /\ UNCHANGED sessVars

\* The first test of Next, under bs.mu.
NextEndsEarly(b) == b.failed # NoErr
NextEnds(b) == b.failed # NoErr /\ Len(b.store) = 0

BSNextCheck ==
    /\ bs.pc = "idle"
    /\ bs' = IF NextEnds(bs)
             THEN [bs EXCEPT !.ret = "false", !.via = "top"]
             ELSE IF Len(bs.store) > 0
             THEN [bs EXCEPT !.ret = "true", !.via = "top"]
             ELSE [bs EXCEPT !.pc = "select", !.ret = "none",
                             !.via = "none"]
    /\ UNCHANGED sessVars

\* Entering the select evaluates bs.buf.waitForMore(): a closed channel if
\* frames are there, else a new channel stored in buf.waiting (a panic if
\* one is stored already).
BSSelectEnter ==
    /\ bs.pc = "select"
    /\ bs' = IF Len(bs.store) > 0
             THEN [bs EXCEPT !.pc = "wait", !.woken = TRUE]
             ELSE IF bs.waiting
             THEN [bs EXCEPT !.pc = "panic"]
             ELSE [bs EXCEPT !.pc = "wait", !.waiting = TRUE,
                             !.woken = FALSE]
    /\ UNCHANGED sessVars

\* The select of Next takes any case that is ready.
SelectReady(b) ==
    (IF b.sctx THEN {"sctx"} ELSE {}) \cup (IF b.ctx THEN {"ctx"} ELSE {})
        \cup (IF b.closed > 0 THEN {"closed"} ELSE {})
        \cup (IF b.woken THEN {"more"} ELSE {})

BSSelectReturn(case) ==
    /\ bs.pc = "wait"
    /\ case \in SelectReady(bs)
    /\ bs' = [bs EXCEPT
           !.pc = "idle",
           !.via = case,
           !.failed = IF case \in {"sctx", "ctx"} THEN ErrCtx ELSE @,
           !.ret = CASE case = "ctx" -> "false"
                     [] case = "more" -> "true"
                     [] OTHER -> IF Len(bs.store) > 0 THEN "true"
                                 ELSE "false"]
    /\ UNCHANGED sessVars

\* ByteSource.Bytes with frameBuffer.getNextFrameReader, after a Next that
\* returned true: the next frame leaves the store, buf.frames is
\* decremented.
BSBytes ==
    /\ bs.pc = "idle"
    /\ bs.ret = "true"
    /\ bs.store # <<>>
    /\ bs' = [bs EXCEPT !.store = Tail(@), !.got = Append(@, Head(bs.store)),
                        !.ret = "none", !.via = "none"]
    /\ UNCHANGED sessVars

\* ByteSource.Err(): nil for end-of-stream and for context.Canceled.
BSErr(b) == IF b.failed \in {EOS, ErrCtx} THEN NoErr ELSE b.failed

\* The context passed to Next, or the context of the stream, is cancelled.
BSCtxCancel ==
    /\ ~bs.ctx
    /\ bs' = [bs EXCEPT !.ctx = TRUE]
    /\ UNCHANGED sessVars

BSStreamCancel ==
    /\ ~bs.sctx
    /\ bs' = [bs EXCEPT !.sctx = TRUE]
    /\ UNCHANGED sessVars

\* ------------------------------------------------------------- remote peer
\* The remote end of the connection when it is not a session of the
\* model: it writes any packet, reads what was written to it, closes.
Remote == "B"
Local == "A"

RemoteIds == {1, 0 - 1}
RemoteShapes == Types \cup {"val", "true", "err", "junk"}

RemotePacket(w, shape, v) ==
    IF shape \in Types
    THEN Packet(w, FALSE, TypeFlags(shape), TRUE, "req", shape, v)
    ELSE IF shape = "val" THEN Packet(w, FALSE, TRUE, TRUE, "val", "", v)
    ELSE Packet(w, TRUE, TRUE, TRUE, shape, "", v)

RemoteSend(w, shape, n, cap) ==
    /\ sent < n
    /\ ~pkrClosed[Remote] /\ ~pkrClosed[Local] /\ ~broken
    /\ Len(wire[Local]) < cap
    /\ wire' = [wire EXCEPT ![Local] = Append(@,
                    RemotePacket(w, shape, Payload(sent + 1, w)))]
    /\ sent' = sent + 1
    /\ UNCHANGED <<highest, reqs, terminated, tLock, rLock, rootCancel,
                   pkrClosed, objs, serve, term, closers, callers, broken,
                   issued, handled, sessions, bs>>

\* The remote end writes a non-end frame with any flags, a body that is
\* a request header of any type or no JSON at all.
RemoteInit(w, stream, json, kind, ty, n) ==
    /\ sent < n
    /\ ~pkrClosed[Remote] /\ ~pkrClosed[Local] /\ ~broken
    /\ Len(wire[Local]) < WireCap
    /\ wire' = [wire EXCEPT ![Local] = Append(@,
                    Packet(w, FALSE, stream, json, kind, ty,
                           Payload(sent + 1, w)))]
    /\ sent' = sent + 1
    /\ UNCHANGED <<highest, reqs, terminated, tLock, rLock, rootCancel,
                   pkrClosed, objs, serve, term, closers, callers, broken,
                   issued, handled, sessions, bs>>

RemoteClose ==
    /\ ~pkrClosed[Remote]
    /\ pkrClosed' = [pkrClosed EXCEPT ![Remote] = TRUE]
    /\ UNCHANGED <<highest, reqs, terminated, tLock, rLock, rootCancel,
                   objs, wire, serve, term, closers, callers, broken,
                   issued, handled, sent, sessions, bs>>

Break ==
    /\ ~broken
    /\ broken' = TRUE
    /\ UNCHANGED <<highest, reqs, terminated, tLock, rLock, rootCancel,
                   pkrClosed, objs, wire, serve, term, closers, callers,
                   issued, handled, sent, sessions, bs>>

\* ---------------------------------------------------------- specification
Threads == {"user", "serve"}
Callers == 1..MaxCallers

\* The state after handle() built the session(s) ss.
InitOf(ss) ==
    /\ highest = [p \in Peers |-> 0]
    /\ reqs = [p \in Peers |-> <<>>]
    /\ terminated = [p \in Peers |-> FALSE]
    /\ tLock = [p \in Peers |-> "none"]
    /\ rLock = [p \in Peers |-> "none"]
    /\ rootCancel = [p \in Peers |-> FALSE]
    /\ pkrClosed = [p \in Peers |-> FALSE]
    /\ objs = [p \in Peers |-> <<>>]
    /\ wire = [p \in Peers |-> <<>>]
    /\ serve = [p \in Peers |-> [pc |-> "hdr", hdr |-> NoPacket,
                                 err |-> "none", ret |-> "none",
                                 skew |-> FALSE, late |-> FALSE]]
    /\ term = [p \in Peers |-> [t \in Threads |-> [pc |-> "idle", todo |-> {},
                                                  did |-> {}]]]
    /\ closers = [p \in Peers |-> EmptyBag]
    /\ callers = [p \in Peers |-> [c \in Callers |->
                     [pc |-> "idle", obj |-> 0, ok |-> TRUE, h |-> 0]]]
    /\ broken = FALSE
    /\ sessions = ss
    /\ issued = [p \in Peers |-> <<>>]
    /\ handled = [p \in Peers |-> <<>>]
    /\ sent = 0
    /\ bs = NewByteSource

Init == InitOf({Local})

\* The goroutines of the session of peer p.
Calls(p, cs, types, marshals) ==
    \/ \E c \in cs, type \in types, marshal \in marshals :
         DoLock(p, c, type, marshal)
    \/ \E c \in cs : DoStore(p, c)
    \/ \E c \in cs : DoPour(p, c)

ServeRoute(p) ==
    \/ ServeNextHeader(p)
    \/ ServeEndKnown(p)
    \/ ServeEndUnknown(p)
    \/ ServeNew(p)
    \/ ServeData(p)
    \/ ServeSkewed(p)
    \/ \E c \in BagToSet(closers[p]) : CloseStreamClose(p, c)
    \/ \E c \in BagToSet(closers[p]) : CloseStreamDelete(p, c)

Terminates(p, ts) ==
    \/ \E t \in ts : TermLock(p, t)
    \/ \E t \in ts, k \in DOMAIN reqs[p] : TermCloseReq(p, t, k)
    \/ \E t \in ts : TermClose(p, t)

\* One session against a remote end that writes any frames: the calls,
\* the serve loop routing the frames, and the holders of the streams.
ServeCallers == 1

Next ==
    \/ Calls(Local, 1..ServeCallers, Types, {TRUE})
    \/ ServeRoute(Local)
    \/ \E o \in DOMAIN objs[Local] : StreamNext(Local, o)
    \/ \E o \in DOMAIN objs[Local] : StreamPour(Local, o)
    \/ \E o \in DOMAIN objs[Local] : StreamClose(Local, o)
    \/ \E w \in RemoteIds, shape \in RemoteShapes :
         RemoteSend(w, shape, MaxFrames, WireCap)

Spec == Init /\ [][Next]_vars

\* One session that is terminated, by the user or by the serve loop on
\* the way out, while calls and frames are under way; the connection may
\* be closed by the remote end or break.
TermTypes == {"source", "duplex"}
TermShapes == {"sink", "val", "true"}
TermFrames == 2

NextTerm ==
    \/ Calls(Local, 1..ServeCallers, TermTypes, BOOLEAN)
    \/ ServeRoute(Local)
    \/ ServeTLock(Local)
    \/ ServeExit(Local)
    \/ TermCall(Local)
    \/ Terminates(Local, Threads)
    \/ \E o \in DOMAIN objs[Local] : StreamNext(Local, o)
    \/ \E o \in DOMAIN objs[Local] : StreamPour(Local, o)
    \/ \E o \in DOMAIN objs[Local] : CtxCancel(Local, o)
    \/ \E w \in RemoteIds, shape \in TermShapes :
         RemoteSend(w, shape, TermFrames, WireCap)
    \/ RemoteClose
    \/ Break

SpecTerm == Init /\ [][NextTerm]_vars

\* Concurrent calls on one session, with the other users of the request
\* table: a Terminate of the user and the serve loop storing the requests
\* the remote end initiates.
DoShapes == {"async", "source"}
DoFrames == 1

NextDo ==
    \/ Calls(Local, Callers, Types, BOOLEAN)
    \/ TermCall(Local)
    \/ Terminates(Local, {"user"})
    \/ ServeNextHeader(Local)
    \/ ServeNew(Local)
    \/ \E shape \in DoShapes : RemoteSend(1, shape, DoFrames, WireCap)

SpecDo == Init /\ [][NextDo]_vars

\* Two sessions on one connection (rpc1 and rpc2 of the tests): each end
\* makes a call, serves the frames of the other and is terminated by its
\* user.
PairTypes == {"async"}

InitPair == InitOf(Peers)

NextPair ==
    \E p \in Peers :
        \/ Calls(p, 1..ServeCallers, PairTypes, {TRUE})
        \/ ServeNextHeader(p)
        \/ ServeEndKnown(p)
        \/ ServeEndUnknown(p)
        \/ ServeNew(p)
        \/ ServeSkewed(p)
        \/ \E c \in BagToSet(closers[p]) : CloseStreamClose(p, c)
        \/ \E c \in BagToSet(closers[p]) : CloseStreamDelete(p, c)
        \/ ServeExit(p)
        \/ TermCall(p)
        \/ Terminates(p, Threads)

SpecPair == InitPair /\ [][NextPair]_vars

\* Two calls under way, a Source and an Async, against a remote end that
\* keeps to the protocol and answers the calls it was sent with payloads.
\* The serve loop and a caller inside Next always get to run.
LiveCallers == 2
LiveFrames == 2
LiveWireCap == 2

LiveType(c) == IF c = 1 THEN "source" ELSE "async"

\* The request of the c-th call, once Do returned nil.
CallOf(c) == objs[Local][callers[Local][c].obj]

NextLive ==
    \/ \E c \in 1..LiveCallers : DoLock(Local, c, LiveType(c), TRUE)
    \/ \E c \in 1..LiveCallers : DoStore(Local, c)
    \/ \E c \in 1..LiveCallers : DoPour(Local, c)
    \/ ServeNextHeader(Local)
    \/ ServeData(Local)
    \/ \E o \in DOMAIN objs[Local] : StreamNext(Local, o)
    \/ \E o \in DOMAIN objs[Local] : CtxCancel(Local, o)
    \/ \E c \in 1..LiveCallers :
         /\ callers[Local][c].pc = "called"
         /\ RemoteSend(0 - CallOf(c).id, "val", LiveFrames, LiveWireCap)

\* The caller of request o is inside Next.
CallerNext(o) == o \in DOMAIN objs[Local] /\ StreamNext(Local, o)

SpecLive ==
    /\ Init
    /\ [][NextLive]_vars
    /\ WF_vars(ServeNextHeader(Local) \/ ServeData(Local))
    /\ \A o \in 1..LiveCallers : WF_vars(CallerNext(o))

\* A session that serves the calls of the remote end and is terminated by
\* its user while handlers run.  The goroutines of the session (the serve
\* loop, closeStream, Terminate) always get to run.
CancelShapes == {"sink", "val", "true"}
CancelFrames == 2

NextCancel ==
    \/ ServeRoute(Local)
    \/ ServeExit(Local)
    \/ TermCall(Local)
    \/ Terminates(Local, Threads)
    \/ \E o \in DOMAIN objs[Local] : StreamNext(Local, o)
    \/ \E shape \in CancelShapes :
         RemoteSend(1, shape, CancelFrames, WireCap)

SpecCancel ==
    /\ Init
    /\ [][NextCancel]_vars
    /\ WF_vars(ServeRoute(Local) \/ ServeExit(Local)
                   \/ Terminates(Local, Threads))

\* The serve loop against a remote end that initiates calls with every
\* combination of flags, request id, body and call type.
ParseIds == {0, 1, 2, 0 - 1}
ParseKinds == {"req", "junk"}
ParseTypes == Types \cup {"", "bogus"}
ParseFrames == 3

NextParse ==
    \/ ServeNextHeader(Local)
    \/ ServeNew(Local)
    \/ ServeData(Local)
    \/ \E w \in ParseIds, stream \in BOOLEAN, json \in BOOLEAN,
          kind \in ParseKinds, ty \in ParseTypes :
         RemoteInit(w, stream, json, kind, ty, ParseFrames)

SpecParse == Init /\ [][NextParse]_vars

\* A remote end that sends more payloads than one stream buffers, to a
\* Sink call it initiates or to the Source call of this end, while the
\* holder of the stream does not read.
FloodFrames == 152

\* The remote end has initiated its Sink call.
SinkStarted ==
    \/ handled[Local] # <<>>
    \/ wire[Local] # <<>> /\ Head(wire[Local]).kind = "req"

NextFlood ==
    \/ Calls(Local, {1}, {"source"}, {TRUE})
    \/ ServeNextHeader(Local)
    \/ ServeNew(Local)
    \/ ServeData(Local)
    \/ sent = 0 /\ RemoteSend(1, "sink", FloodFrames, WireCap)
    \/ SinkStarted /\ RemoteSend(1, "val", FloodFrames, WireCap)
    \/ /\ ~SinkStarted
       /\ callers[Local][1].pc = "called"
       /\ RemoteSend(0 - 1, "val", FloodFrames, WireCap)

SpecFlood == Init /\ [][NextFlood]_vars

\* One ByteSource: the serve loop stores frames and closes the stream
\* (closeStream, Terminate), the caller runs Next and Bytes and may cancel
\* its contexts.
CloseErrors == {NoErr, ErrRemote, ErrSessionTerminated}

NextBS ==
    \/ BSConsume
    \/ \E e \in CloseErrors : BSCancel(e)
    \/ BSNextCheck
    \/ BSSelectEnter
    \/ \E case \in {"sctx", "ctx", "closed", "more"} : BSSelectReturn(case)
    \/ BSBytes
    \/ BSCtxCancel
    \/ BSStreamCancel

SpecBS == Init /\ [][NextBS]_vars

\* The same ByteSource when its holder also calls Close and
\* CloseWithError; nothing runs after a panic.
NextClose ==
    \/ bs.pc # "crash" /\ NextBS
    \/ \E e \in CloseErrors : BSClose(e)

SpecClose == Init /\ [][NextClose]_vars

\* The frameBuffer of one ByteSource with its callers: copyBody with
\* whole and short bodies, getNextFrameReader at any time, the reads of
\* the reader it hands out.
NextFB ==
    \/ \E pktLen \in 0..FBBody, k \in 0..FBBody : FBCopyBody(pktLen, k)
    \/ FBWaitForMore
    \/ FBGetNextFrameReader
    \/ \E n \in 1..FBBody : FBRead(n)

SpecFB == Init /\ [][NextFB]_vars

\* ------------------------------------------------------------------ claims
\* The requests of peer p that Do stored.
LocalObjs(p) == {o \in DOMAIN objs[p] : objs[p][o].local /\ objs[p][o].id # 0}

\* C1: the ids Do assigns on one session are positive and strictly
\* increasing in allocation order, each is the successor of the id before
\* it (the first is 1), and no two requests of Do share an id.
C1_IdsIncreasing ==
    /\ \A i \in 1..Len(issued[Local]) :
         /\ issued[Local][i] > 0
         /\ issued[Local][i] = i
         /\ i > 1 => issued[Local][i] > issued[Local][i - 1]
    /\ \A o1, o2 \in LocalObjs(Local) :
         objs[Local][o1].id = objs[Local][o2].id => o1 = o2
    /\ highest[Local] = Len(issued[Local])

\* Two calls were under way at once (the second one waited for the
\* request lock the first one held) and both have their ids.
C1_Witness ==
    /\ Len(issued[Local]) = MaxCallers
    /\ \E c \in Callers : callers[Local][c].h > 0

\* The payloads delivered to the stream of a request: those Next handed
\* out, then those still buffered.
InStream(r) == r.got \o r.inq

\* The requests of peer p the serve loop built for calls of the remote end.
HandlerObjs(p) == {o \in DOMAIN objs[p] : ~objs[p][o].local}

\* C2: for every request, the payloads the serve loop took off the
\* connection for it are in its inbound stream in the order they were
\* written (the n-th written before the m-th for n < m), none dropped and
\* none duplicated.
C2_WireOrder ==
    \A o \in DOMAIN objs[Local] :
        LET r == objs[Local][o]
        IN /\ InStream(r) = r.fed
           /\ \A i, j \in 1..Len(InStream(r)) :
                i < j => InStream(r)[i].n < InStream(r)[j].n

\* Two payloads of one request were delivered, and a frame of another
\* request was routed between them.
C2_Witness ==
    \E o \in DOMAIN objs[Local] :
        /\ Len(objs[Local][o].got) = 1
        /\ Len(objs[Local][o].inq) = 1
        /\ objs[Local][o].got[1].n + 1 < objs[Local][o].inq[1].n
        /\ HandlerObjs(Local) # {}

\* C4 as stated: HandleCall runs once per request id of the remote end,
\* whatever frames carry the id.
C4_OncePerId ==
    \A i, j \in 1..Len(handled[Local]) :
        handled[Local][i] = handled[Local][j] => i = j

\* C4: HandleCall runs once for every request the serve loop stores in
\* the table, for a frame whose (negative) id is not in the table at that
\* moment, and never for a frame whose id is in the table.
C4_OncePerStoredRequest ==
    [][handled'[Local] # handled[Local] =>
         LET k == handled'[Local][Len(handled'[Local])]
         IN /\ handled'[Local] = Append(handled[Local], k)
            /\ k < 0
            /\ k \notin DOMAIN reqs[Local]
            /\ k \in DOMAIN reqs'[Local]
            /\ Len(handled'[Local]) = Cardinality(HandlerObjs(Local)')]_vars

\* A request of the remote end was handled, ended and removed, and the
\* serve loop read a further frame with its id that is no request.
C4_Witness ==
    /\ Len(handled[Local]) = 1
    /\ handled[Local][1] \notin DOMAIN reqs[Local]
    /\ sent = MaxFrames
    /\ serve[Local].pc = "done"
    /\ wire[Local] = <<>>

\* C8: a request Do stored is keyed by its positive id, a request of the
\* remote end by the negated id the remote end wrote, and every payload in
\* the stream of a request was written for that request: by the remote
\* end with the negated key of the request.
C8_KeysAndRouting ==
    /\ \A k \in DOMAIN reqs[Local] :
         LET r == objs[Local][reqs[Local][k]]
         IN /\ r.id = k
            /\ r.local <=> k > 0
            /\ ~r.local <=> k < 0
    /\ \A o \in DOMAIN objs[Local] :
         \A i \in 1..Len(InStream(objs[Local][o])) :
            InStream(objs[Local][o])[i].w = 0 - objs[Local][o].id

\* Both ends initiated a call with id 1; each request got a payload.
C8_Witness ==
    /\ {1, 0 - 1} \subseteq DOMAIN reqs[Local]
    /\ \A k \in {1, 0 - 1} :
         Len(InStream(objs[Local][reqs[Local][k]])) = 1

\* C9 as stated: the handler of a sink or duplex call is never handed an
\* error or end-of-stream by Next while payloads that arrived before the
\* end frame are undelivered.
C9_HandlerReadsAll ==
    \A o \in HandlerObjs(Local) :
        (objs[Local][o].inCap = "many" /\ objs[Local][o].ended = "true")
            => ~objs[Local][o].lost

\* The requests a returned Terminate closed.
Terminated(t) ==
    IF term[Local][t].pc = "done" THEN term[Local][t].did ELSE {}

C6_ServeReturnsNil ==
    (serve[Local].pc = "done" /\ serve[Local].late
        /\ serve[Local].err # "parse") =>
        serve[Local].ret = "nil"

\* C7 as stated: once both ends have called Terminate, the two Terminate
\* calls and the two serve loops are never stuck: either all four have
\* returned or one of the goroutines can take a step.
C7_NoDeadlock ==
    (\A p \in Peers : term[p]["user"].pc # "idle") =>
        \/ \A p \in Peers :
             term[p]["user"].pc = "done" /\ serve[p].pc = "done"
        \/ ENABLED NextPair

Answered(c) ==
    /\ callers[Local][c].pc = "called"
    /\ CallOf(c).type = "async"
    /\ \E i \in 1..Len(wire[Local]) :
         wire[Local][i].req = 0 - CallOf(c).id

\* The c-th call has its outcome: Next returned the reply or an error.
Outcome(c) ==
    /\ callers[Local][c].pc = "called"
    /\ \/ CallOf(c).got # <<>>
       \/ CallOf(c).failed # NoErr

\* C3 as stated: a call the remote end has answered gets its outcome, or
\* the session is terminated.
C3_EveryCallEnds ==
    \A c \in 1..LiveCallers :
        Answered(c) ~> (Outcome(c) \/ terminated[Local])

\* C11 as stated: a Close (or CloseWithError) of a ByteSource that is
\* closed already, by whatever path, returns normally and changes nothing.
C11_CloseIdempotent ==
    [][(bs.failed # NoErr /\ bs'.closes # bs.closes) =>
          /\ bs'.pc # "crash"
          /\ bs'.failed = bs.failed
          /\ bs'.closed = bs.closed]_vars

\* C12 as stated: once the ByteSource was closed with an error, the stored
\* terminal error never changes, so every later read reports it.
C12_ErrorWriteOnce ==
    [][bs.closed > 0 => bs'.failed = bs.failed]_vars

\* C13 as stated: no request has more than bufSize inbound frames
\* buffered and unread, whatever the shape of its stream.
C13_InboundBounded ==
    \A o \in DOMAIN objs[Local] : Len(objs[Local][o].inq) <= bufSize

\* The serve loop is about to route the end frame of request o whose body
\* is a CallError.
ErrorFrameFor(o) ==
    /\ serve[Local].pc = "route"
    /\ serve[Local].hdr.end
    /\ serve[Local].hdr.kind = "err"
    /\ serve[Local].hdr.req \in DOMAIN reqs[Local]
    /\ reqs[Local][serve[Local].hdr.req] = o

\* The requests other than o are as they were.
OthersUnchanged(o) ==
    \A x \in DOMAIN objs[Local] \ {o} : objs'[Local][x] = objs[Local][x]

C15_IoErrorTerminates ==
    (/\ serve[Local].pc = "done"
     /\ serve[Local].err \in {"io", "read"}
     /\ term[Local]["user"].pc = "idle") =>
        /\ serve[Local].ret = "err"
        /\ terminated[Local]
        /\ \A d \in term[Local]["serve"].did :
             d.open => objs[Local][d.o].failed = ErrSessionTerminated

\* The context fetchRequest gave to the HandleCall of request o is done:
\* it is a child of the context passed to Serve, cancelled by req.abort.
HandlerCtxDone(o) ==
    o \in DOMAIN objs[Local] /\ objs[Local][o].ctxDone

\* C16 as stated: after Terminate returned, the context of every handler
\* is eventually cancelled.
C16_HandlersCancelled ==
    \A o \in 1..CancelFrames :
        (term[Local]["user"].pc = "done" /\ o \in HandlerObjs(Local))
            ~> HandlerCtxDone(o)

\* C17 as stated: the stream of a request this end initiates has the
\* capabilities of the call-type table (async none/once, source none/many,
\* sink many/none, duplex many/many).
C17_TableOnInitiation ==
    \A o \in LocalObjs(Local) :
        LET r == objs[Local][o]
        IN <<r.inCap, r.outCap>> =
               CASE r.type = "async" -> <<"none", "once">>
                 [] r.type = "source" -> <<"none", "many">>
                 [] r.type = "sink" -> <<"many", "none">>
                 [] OTHER -> <<"many", "many">>

\* C17: the table holds for the requests ParseRequest builds on the
\* receiving end; the request of the initiating end has the mirrored
\* stream: async once/none, source many/none (a ByteSource), sink
\* none/many, duplex many/many.
C17_MirroredCaps ==
    \A o \in DOMAIN objs[Local] :
        LET r == objs[Local][o]
        IN IF r.local
           THEN /\ <<r.inCap, r.outCap>> =
                       CASE r.type = "async" -> <<"once", "none">>
                         [] r.type = "source" -> <<"many", "none">>
                         [] r.type = "sink" -> <<"none", "many">>
                         [] OTHER -> <<"many", "many">>
                /\ r.inCap = ParseOutCap(r.type)
                /\ r.outCap = ParseInCap(r.type)
                /\ r.bs <=> r.type = "source"
           ELSE /\ <<r.inCap, r.outCap>> =
                       CASE r.type = "async" -> <<"none", "once">>
                         [] r.type = "source" -> <<"none", "many">>
                         [] r.type = "sink" -> <<"many", "none">>
                         [] OTHER -> <<"many", "many">>
                /\ ~r.bs

\* An Async call of this end read its reply, and the handler of an async
\* call of the remote end poured its one reply.
C17_Witness ==
    \E o1 \in LocalObjs(Local), o2 \in HandlerObjs(Local) :
        /\ objs[Local][o1].type = "async"
        /\ Len(objs[Local][o1].got) = 1
        /\ objs[Local][o2].type = "async"
        /\ objs[Local][o2].fired

\* Thread t of peer p is inside Terminate at a call that goes to the
\* connection: req.CloseWithError writing the end frame of an open
\* stream, or r.pkr.Close().
InTransportIO(p, t) ==
    /\ term[p][t].pc = "closing"
    /\ \/ term[p][t].todo = {}
       \/ \E k \in term[p][t].todo : StreamOpen(objs[p][reqs[p][k]])

\* C18 as stated: a thread that is writing to the connection, blocked in
\* the write, or closing the connection holds neither rLock nor tLock.
C18_NoLockAcrossIO ==
    \A p \in Peers : \A t \in Threads :
        InTransportIO(p, t) => (rLock[p] # t /\ tLock[p] # t)

\* The serve loop is about to route an end frame of request o.
EndFrameFor(o) ==
    /\ serve[Local].pc = "route"
    /\ serve[Local].hdr.end
    /\ serve[Local].hdr.req \in DOMAIN reqs[Local]
    /\ reqs[Local][serve[Local].hdr.req] = o

\* closeStream for request o with error e is started in this step.
CloseStarted(o, e) ==
    closers'[Local] = closers[Local] (+)
        SetToBag({[o |-> o, pc |-> "close", err |-> e]})

\* C19: routing an end frame of a request of the table cancels the
\* context of its handler and starts closeStream, with nil (end-of-stream)
\* if the body is true and with the CallError if the body is one; for any
\* other body Serve returns an error and nothing is closed.  closeStream
\* stores end-of-stream, or the error, in a stream that was open.
C19_EndFrameCloses ==
    [][/\ \A o \in DOMAIN objs[Local] :
            (EndFrameFor(o) /\ serve'[Local] # serve[Local]) =>
                /\ ~objs[Local][o].local => objs'[Local][o].ctxDone
                /\ objs'[Local][o].failed = objs[Local][o].failed
                /\ CASE serve[Local].hdr.kind = "true" ->
                           CloseStarted(o, NoErr) /\ serve'[Local].pc = "hdr"
                     [] serve[Local].hdr.kind = "err" ->
                           CloseStarted(o, ErrRemote)
                               /\ serve'[Local].pc = "hdr"
                     [] OTHER ->
                           /\ closers' = closers
                           /\ serve'[Local].pc = "done"
                           /\ serve'[Local].ret = "err"
       /\ \A c \in BagToSet(closers[Local]) :
            (/\ c.pc = "close"
             /\ CopiesIn(c, closers'[Local]) < CopiesIn(c, closers[Local])) =>
                objs'[Local][c.o].failed =
                    IF ~StreamOpen(objs[Local][c.o])
                    THEN objs[Local][c.o].failed
                    ELSE IF c.err = NoErr THEN EOS ELSE ErrRemote]_vars

\* The remote end ended its own call with true and the call of this end
\* with a CallError; both streams were closed accordingly and the context
\* of the handler is cancelled.
C19_Witness ==
    \E o1 \in LocalObjs(Local), o2 \in HandlerObjs(Local) :
        /\ objs[Local][o1].ended = "err"
        /\ objs[Local][o1].failed = ErrRemote
        /\ objs[Local][o2].ended = "true"
        /\ objs[Local][o2].failed = EOS
        /\ objs[Local][o2].ctxDone

\* C20 as stated: a request whose outbound direction was open when the
\* end frame of the remote end arrived is not removed from the table.
C20_RemovedWhenBothClosed ==
    [][\A k \in DOMAIN reqs[Local] :
          k \notin DOMAIN reqs'[Local] =>
              ~objs[Local][reqs[Local][k]].endOpen]_vars

\* The serve loop is about to hand the frame hdr, a non-end frame for an
\* id that is not in the table, to ParseRequest.
NewFrame(hdr) ==
    /\ serve[Local].pc = "route"
    /\ serve[Local].hdr = hdr
    /\ ~hdr.end
    /\ hdr.req \notin DOMAIN reqs[Local]
    /\ serve'[Local] # serve[Local]

\* The step stored one new request, the last of objs.
Stored == Len(objs'[Local]) = Len(objs[Local]) + 1

\* C21: for a frame with the JSON flag, a negative id and a body that
\* decodes, ParseRequest accepts with the stream flag the types duplex
\* (in many, out many), source (in none, out many) and sink (in many, out
\* none), without it the types async and empty (async: in none, out
\* once), and rejects every other type.
C21_ParseCaps ==
    [][\A hdr \in {serve[Local].hdr} :
          (NewFrame(hdr) /\ hdr.json /\ hdr.req < 0 /\ hdr.kind = "req") =>
              LET r == objs'[Local][Len(objs'[Local])]
                  caps == <<r.type, r.inCap, r.outCap>>
              IN CASE hdr.stream /\ hdr.ty = "duplex" ->
                        Stored /\ caps = <<"duplex", "many", "many">>
                   [] hdr.stream /\ hdr.ty = "source" ->
                        Stored /\ caps = <<"source", "none", "many">>
                   [] hdr.stream /\ hdr.ty = "sink" ->
                        Stored /\ caps = <<"sink", "many", "none">>
                   [] ~hdr.stream /\ hdr.ty \in {"", "async"} ->
                        Stored /\ caps = <<"async", "none", "once">>
                   [] OTHER ->
                        ~Stored /\ serve'[Local].ret = "err"]_vars

\* ParseRequest built an async request (no stream flag) and a duplex
\* request (stream flag), and rejected a third frame.
C21_Witness ==
    /\ serve[Local].pc = "done"
    /\ serve[Local].err = "parse"
    /\ \E o1, o2 \in HandlerObjs(Local) :
         /\ objs[Local][o1].type = "async"
         /\ objs[Local][o2].type = "duplex"

\* C22: a non-end frame for an unknown id that lacks the JSON flag, or
\* whose id is not negative after inversion, or whose body does not
\* decode, or whose type is not one the stream flag allows, makes Serve
\* return an error (closing the connection); the table, the requests and
\* the handlers invoked are as before.
C22_MalformedFatal ==
    [][\A hdr \in {serve[Local].hdr} :
          (/\ NewFrame(hdr)
           /\ \/ ~hdr.json
              \/ hdr.req >= 0
              \/ hdr.kind # "req"
              \/ IF hdr.stream THEN hdr.ty \notin {"duplex", "source", "sink"}
                 ELSE hdr.ty \notin {"", "async"}) =>
              /\ serve'[Local].pc = "done"
              /\ serve'[Local].ret = "err"
              /\ pkrClosed'[Local]
              /\ reqs' = reqs
              /\ objs' = objs
              /\ handled' = handled]_vars

\* A request of the remote end was stored, a later initiation was
\* malformed: Serve returned, the stored request is still in the table.
C22_Witness ==
    /\ serve[Local].pc = "done"
    /\ serve[Local].err = "parse"
    /\ Len(handled[Local]) = 1
    /\ handled[Local][1] \in DOMAIN reqs[Local]
    /\ sent = 2

\* C23 as stated: the serve loop never asks for the next header while
\* bytes of the body of the last frame are unread.
C23_BodyConsumed ==
    \A p \in sessions : serve[p].pc = "hdr" => ~serve[p].skew

\* C24: every id Do has allocated is in the request table from the moment
\* it is allocated, so before the initiation frame is poured, until the
\* end frame of the remote end for it was routed; the serve loop never
\* routes a frame for an allocated id that is missing for another reason.
C24_StoredBeforePour ==
    /\ \A k \in 1..highest[Local] :
         \/ k \in DOMAIN reqs[Local]
         \/ \E o \in LocalObjs(Local) :
              objs[Local][o].id = k /\ objs[Local][o].ended # "no"
    /\ \A c \in 1..ServeCallers :
         (callers[Local][c].pc = "pour"
             /\ objs[Local][callers[Local][c].obj].ended = "no") =>
             objs[Local][callers[Local][c].obj].id \in DOMAIN reqs[Local]

\* The serve loop routes a reply for the id of a call whose initiation
\* frame Do has not poured yet.
C24_Witness ==
    /\ serve[Local].pc = "route"
    /\ ~serve[Local].hdr.end
    /\ \E c \in 1..ServeCallers :
         /\ callers[Local][c].pc = "pour"
         /\ serve[Local].hdr.req = objs[Local][callers[Local][c].obj].id
         /\ serve[Local].hdr.req \in DOMAIN reqs[Local]

\* C25 as stated: a call whose Do returned an error has left no request
\* in the table and has not used up an id.
C25_FailedDoNoTrace ==
    /\ \A c \in Callers :
         callers[Local][c].pc = "failed" =>
             objs[Local][callers[Local][c].obj].id \notin DOMAIN reqs[Local]
    /\ highest[Local] =
           Cardinality({c \in Callers :
                           callers[Local][c].pc \in {"pour", "called"}})

\* C26 as stated: while a Source call of this end is cancelled or closed,
\* Serve does not return with the error of handing a payload to a stream,
\* and the connection stays open.
C26_CancelKeepsSession ==
    (\E o \in LocalObjs(Local) :
        objs[Local][o].bs /\ objs[Local][o].failed # NoErr) =>
        ~(serve[Local].pc = "done" /\ serve[Local].err = "pour"
             /\ pkrClosed[Local])

\* The Async call c is complete: its Next returned the one reply.
Replied(c) ==
    /\ callers[Local][c].pc = "called"
    /\ CallOf(c).type = "async"
    /\ CallOf(c).got # <<>>

\* The request of call c is not in the table.
Removed(c) ==
    /\ callers[Local][c].pc = "called"
    /\ CallOf(c).id \notin DOMAIN reqs[Local]

\* C27 as stated: the request of an Async call that got its reply
\* eventually leaves the table.
C27_CompletedLeaves ==
    \A c \in 1..LiveCallers : Replied(c) ~> Removed(c)

\* The requests thread t of Terminate has closed with ErrSessionTerminated.
TermClosed(t) == {d.o : d \in term[Local][t].did}

\* C28 as stated: no request is closed with ErrSessionTerminated by the
\* Terminate of the user and again by the Terminate of the serve loop.
C28_TerminatedOnce == TermClosed("user") \cap TermClosed("serve") = {}

\* C29 as stated: frames is the number of frames copyBody stored whole
\* less the number getNextFrameReader handed out, and has not wrapped.
C29_FramesCount ==
    bs.buf.frames = [hi |-> 0, lo |-> bs.buf.stored - bs.buf.handed]

\* The goroutine in Next is at the select and a context is done: its
\* next step assigns bs.failed, and bs.mu was unlocked before the select.
NextWritesFailed == \E case \in {"sctx", "ctx"} : ENABLED BSSelectReturn(case)

\* Another goroutine can take bs.mu and read or write bs.failed now:
\* consume called by the serve loop, Cancel called by closeStream or
\* Terminate.
LockedAccess == ENABLED BSConsume \/ \E e \in CloseErrors : ENABLED BSCancel(e)

\* C30 as stated: no two goroutines can access bs.failed at the same
\* time with one of them writing; an access outside bs.mu never meets
\* another access.
C30_FailedUnderMutex == ~(NextWritesFailed /\ LockedAccess)

====
